---- MODULE Spec2Model ----
(***************************************************************************)
(* Model of the typing-practice application (Py-Typing-1.0): the typing    *)
(* session (core/models.py), the progress store (core/persistence.py) and  *)
(* the event handlers of the main window (ui/main_window.py).              *)
(*                                                                         *)
(* Text is a sequence of one-character strings.  Time is counted in whole  *)
(* seconds (the variable now); two readings of the clock inside the same   *)
(* second are equal, so an attempt begun and completed within one second   *)
(* has elapsed time 0.  Qt delivers one event at a time, so every handler  *)
(* is one atomic action.                                                   *)
(*                                                                         *)
(* Pending QTimer.singleShot callbacks are queues; callbacks of equal      *)
(* delay fire in the order they were scheduled.  The field stale of an     *)
(* unlock callback, and the variables completions, attemptCompletions,     *)
(* wpm_call, accuracy_call, startup and store_calls, are bookkeeping: the  *)
(* program does not hold them.                                             *)
(*                                                                         *)
(* The handlers are composed into several specifications, among them:      *)
(*   Spec         attempts at one text over time (typing, Reset, clock,    *)
(*                unlock callbacks)                                        *)
(*   SpecStrict   attempts at one text with the settings dialog and the    *)
(*                strict-mode warning                                      *)
(*   SpecNav      the lesson list, Next Text and the custom text box       *)
(*   SpecHistory  the session history of the progress store                *)
(*   SpecSession  the methods of TypingSession alone                       *)
(*   SpecStartup  construction of the window from any progress file        *)
(*   SpecStore    the saving operations of the progress store, with        *)
(*                writes that may fail                                     *)
(***************************************************************************)
EXTENDS Integers, Sequences, FiniteSets, TLC

\* ------------------------------------------------------------------ bounds
\* longest text the typing input may hold
MaxLen == 2
\* last second of the clock
MaxTime == 2
\* completions in one run of the application
MaxRecords == 2
\* backspace keypresses counted in one attempt
MaxBackspace == 1
\* strict-mode warnings that may be pending at once
MaxFlash == 2

\* --------------------------------------------------------- program constants
DEFAULT_BACKSPACE_PENALTY == 3
\* DEFAULT_BACKSPACE_ACCURACY_WEIGHT = 0.5, kept in tenths
DEFAULT_BACKSPACE_ACCURACY_WEIGHT == 5
DEFAULT_STRICT_MODE == FALSE
MAX_HISTORY_SIZE == 100
\* QTimer.singleShot(2000, ...), in seconds
UnlockDelay == 2
\* lesson_offset: row 0 of the lesson list is "Free Practice"
lesson_offset == 1

\* Optional[float] start_time = None
NoTime == -1

\* ------------------------------------------------------------------- inputs
Chars == {"a", "b"}

\* the text "__RANDOM__" of the Random Words lesson, as one token that is not
\* among the characters the user types
RANDOM_SENTINEL == << "__RANDOM__" >>

\* build_lessons(): the ordered lesson catalog, reduced to two lessons with
\* short texts and the Random Words lesson
Lessons ==
  << [title |-> "L0", texts |-> << <<"a", "b">>, <<"b">> >>],
     [title |-> "L1", texts |-> << <<"a">> >>],
     [title |-> "Random Words", texts |-> << RANDOM_SENTINEL >>] >>

\* contents the user may give the custom text box (already stripped)
CustomTexts == { <<>>, <<"b", "a">> }

\* texts the user may paste over the whole typing input
PasteTexts == { <<"a", "b">>, <<"b", "a">> }

\* values offered by the settings dialog
PenaltyVals == {DEFAULT_BACKSPACE_PENALTY}
WeightVals == {DEFAULT_BACKSPACE_ACCURACY_WEIGHT}

VARIABLES
  mode,                   \* "lesson" | "free"
  current_lesson_index,
  current_text_index,
  current_target_text,
  custom_text,            \* custom_text_input.toPlainText().strip()
  typed_text,             \* session.typed_text (= typing_input text)
  start_time,             \* session.start_time
  errors,                 \* session.errors
  is_active,              \* session.is_active
  backspace_count,        \* session.backspace_count
  key_errors,             \* session.key_errors
  readOnly,               \* typing_input.isReadOnly()
  unlockTimers,           \* pending QTimer.singleShot(2000, _unlock_text_input)
  input_style,            \* typing_input.styleSheet()
  flashTimers,            \* pending QTimer.singleShot(150, restore style)
  best_wpm,               \* self.best_wpm
  history,                \* progress_store.data["session_history"]
  settings,               \* progress_store.data["settings"]
  data,                   \* progress_store.data lesson and text index
  now,                    \* time.time()
  completions,            \* number of on_completion calls so far
  attemptCompletions,     \* on_completion calls since the last reset
  wpm_call,               \* the last _calculate_wpm call observed, if any
  accuracy_call,          \* the last _calculate_accuracy call observed, if any
  startup,                \* "constructing" | "running" | "raised": TypingPracticeApp()
  file,                   \* typing_progress.json, followed where it is read or a
                          \* write of it can fail
  key_error_stats,        \* progress_store.data["key_error_stats"]
  random_texts,           \* progress_store.data["random_texts"]
  store_calls             \* bookkeeping: the write_text calls of ProgressStore.save so
                          \* far, each with the operation that saved, its argument
                          \* and whether the write succeeded

session == <<typed_text, start_time, errors, is_active, backspace_count, key_errors>>
position == <<mode, current_lesson_index, current_text_index, current_target_text>>
timers == <<unlockTimers, input_style, flashTimers>>
store == <<best_wpm, history, settings, data>>
ghost == <<completions, attemptCompletions>>
score == <<wpm_call, accuracy_call>>
storage == <<file, key_error_stats, random_texts, store_calls>>
vars == <<position, custom_text, session, readOnly, timers, store, now, ghost, score,
          startup, storage>>

\* ------------------------------------------------------------------ helpers
Min(a, b) == IF a < b THEN a ELSE b
Max(a, b) == IF a > b THEN a ELSE b

\* dict.get(key, default)
Get(d, k, default) == IF k \in DOMAIN d THEN d[k] ELSE default

\* dict with d[k] = v
Put(d, k, v) == [x \in DOMAIN d \cup {k} |-> IF x = k THEN v ELSE d[x]]

EmptyDict == [x \in {} |-> 0]

\* a field the JSON object does not have
Absent == [t |-> "absent", v |-> 0]
AbsentDict == [t |-> "absent", v |-> EmptyDict]

\* typing_progress.json by kind ("missing": path.exists() is false, "invalid":
\* not JSON, "undecodable": not UTF-8, "array": JSON that is not an object,
\* "object") with the fields of the object
Document(kind, li, ti, best, st) ==
  [ kind |-> kind, current_lesson_index |-> li, current_text_index |-> ti,
    best_wpm |-> best, settings |-> st ]

\* no progress file on disk
NoFile == Document("missing", Absent, Absent, AbsentDict, AbsentDict)

\* _clamp_index(value, upper)
clamp_index(value, upper) ==
  IF upper <= 0 THEN 0 ELSE Max(0, Min(value, upper - 1))

\* _build_target_highlight counting the target characters not yet typed as
\* errors too
build_target_highlight_counts_untyped(target, typed) ==
  Cardinality({i \in 1..Len(target) : i > Len(typed) \/ typed[i] # target[i]})

\* _build_target_highlight: the number of positions inside both texts where
\* the typed character differs from the target character
build_target_highlight(target, typed) ==
  Cardinality({i \in 1..Min(Len(target), Len(typed)) : typed[i] # target[i]})

\* ----------------------------------------------------------- pure functions
\* pairs (characters, seconds) for which the double-precision quotient
\* (len(typed) / 5) / (elapsed / 60) falls just below the exact integer
\* quotient, so that int() yields one less than floor(12 * len / elapsed);
\* complete for 1..8 characters and 1..12 seconds
FloatUndershoot ==
  { <<3, 3>>, <<3, 6>>, <<3, 12>>, <<6, 3>>, <<6, 6>>, <<6, 12>>,
    <<7, 3>>, <<7, 6>>, <<7, 7>>, <<7, 12>> }

\* raw_wpm = int(words / minutes) if minutes > 0 else 0
raw_wpm(len, elapsed) ==
  IF elapsed > 0
    THEN ((12 * len) \div elapsed) - (IF <<len, elapsed>> \in FloatUndershoot THEN 1 ELSE 0)
    ELSE 0

\* _calculate_wpm returning raw_wpm - backspace_penalty without max(0, ...)
calculate_wpm_unfloored(typed, elapsed, bc, penalty_factor) ==
  IF typed = <<>> THEN 0
  ELSE IF elapsed <= 0 THEN 0
  ELSE raw_wpm(Len(typed), elapsed) - bc * penalty_factor

\* _calculate_wpm(typed, elapsed) with the elapsed time given
calculate_wpm(typed, elapsed, bc, penalty_factor) ==
  IF typed = <<>> THEN 0
  ELSE IF elapsed <= 0 THEN 0
  ELSE Max(0, raw_wpm(Len(typed), elapsed) - bc * penalty_factor)

\* _calculate_accuracy leaving the weighted backspaces out of total_errors
calculate_accuracy_without_backspaces(typed, target, errs, bc, weight) ==
  IF typed = <<>> THEN [num |-> 100, den |-> 1]
  ELSE LET extra_errors == Max(Len(typed) - Len(target), 0)
           total10 == 10 * (errs + extra_errors)
           correct10 == Max(10 * Len(typed) - total10, 0)
       IN  [num |-> correct10 * 10, den |-> Len(typed)]

\* _calculate_accuracy(typed): the percentage as the fraction num / den;
\* the weight is in tenths
calculate_accuracy(typed, target, errs, bc, weight) ==
  IF typed = <<>> THEN [num |-> 100, den |-> 1]
  ELSE LET extra_errors == Max(Len(typed) - Len(target), 0)
           total10 == 10 * (errs + extra_errors) + bc * weight
           correct10 == Max(10 * Len(typed) - total10, 0)
       IN  [num |-> correct10 * 10, den |-> Len(typed)]

\* round(accuracy, 1), in tenths of a percent
round1(acc) == (20 * acc.num + acc.den) \div (2 * acc.den)

\* add_session_record trimming with history[:MAX_HISTORY_SIZE]
add_session_record_keeps_oldest(h, record) ==
  LET appended == Append(h, record)
  IN  IF Len(appended) > MAX_HISTORY_SIZE
        THEN SubSeq(appended, 1, MAX_HISTORY_SIZE)
        ELSE appended

\* ProgressStore.add_session_record: append, then keep the last
\* MAX_HISTORY_SIZE entries
add_session_record(h, record) ==
  LET appended == Append(h, record)
  IN  IF Len(appended) > MAX_HISTORY_SIZE
        THEN SubSeq(appended, Len(appended) - MAX_HISTORY_SIZE + 1, Len(appended))
        ELSE appended

\* _record_best_wpm without the comparison with the stored best
record_best_wpm_always(best, lesson_key, wpm) == Put(best, lesson_key, wpm)

\* _record_best_wpm: the best_wpm dict after a lesson-mode completion
record_best_wpm(best, lesson_key, wpm) ==
  LET existing == Get(best, lesson_key, 0)
  IN  IF wpm > existing THEN Put(best, lesson_key, wpm) ELSE best

\* the completion test without the test for an empty target
should_complete_any_target(typed, target) == typed = target

\* the condition under which on_text_changed calls on_completion
should_complete(typed, target) == typed = target /\ target # <<>>

\* eventFilter counting the keypress before looking at strict mode
count_backspace_before_strict(strict_mode, active, typed, bc) ==
  IF active /\ Len(typed) > 0 THEN bc + 1 ELSE bc

\* eventFilter counting the keypress without looking at the typed text
count_backspace_any_text(strict_mode, active, typed, bc) ==
  IF strict_mode THEN bc
  ELSE IF active THEN bc + 1 ELSE bc

\* eventFilter setting the count back to 0 on a keypress in an empty input
count_backspace_clears_when_empty(strict_mode, active, typed, bc) ==
  IF strict_mode THEN bc
  ELSE IF Len(typed) = 0 THEN 0
  ELSE IF active THEN bc + 1 ELSE bc

\* eventFilter: the backspace count after a Backspace keypress
count_backspace(strict_mode, active, typed, bc) ==
  IF strict_mode THEN bc
  ELSE IF active /\ Len(typed) > 0 THEN bc + 1 ELSE bc

\* record_key_error without the test for an empty key
record_key_error_counts_empty_key(ke, expected_key) ==
  Put(ke, expected_key, Get(ke, expected_key, 0) + 1)

\* TypingSession.record_key_error
record_key_error(ke, expected_key) ==
  IF expected_key # "" THEN Put(ke, expected_key, Get(ke, expected_key, 0) + 1) ELSE ke

\* SessionRecord built by on_completion
SessionRecord(txt, st, errs, bc) ==
  LET elapsed_time == IF st # NoTime THEN now - st ELSE 0
      wpm == calculate_wpm(txt, elapsed_time, bc, settings.backspace_penalty)
      accuracy == calculate_accuracy(txt, current_target_text, errs, bc,
                                     settings.backspace_accuracy_weight)
  IN  [ timestamp |-> now,
        lesson_index |-> IF mode = "lesson" THEN current_lesson_index ELSE -1,
        text_index |-> current_text_index,
        lesson_name |-> IF mode = "lesson"
                          THEN Lessons[current_lesson_index + 1].title
                          ELSE "Free Practice",
        wpm |-> wpm,
        accuracy |-> round1(accuracy),
        errors |-> errs + Max(Len(txt) - Len(current_target_text), 0),
        backspaces |-> bc,
        duration_seconds |-> elapsed_time,
        text_length |-> Len(current_target_text) ]

\* ------------------------------------------------------------------ handlers
\* _save_progress, called in lesson mode with the new indices
save_progress(li, ti) ==
  data' = [current_lesson_index |-> li, current_text_index |-> ti]

\* on_completion storing the record of a lesson text only
on_completion_lessons_only(txt, st, errs, bc) ==
  LET record == SessionRecord(txt, st, errs, bc)
  IN  /\ readOnly' = TRUE
      /\ IF mode = "lesson"
           THEN /\ history' = add_session_record(history, record)
                /\ best_wpm' = record_best_wpm(best_wpm, current_lesson_index, record.wpm)
                /\ IF best_wpm' # best_wpm
                     THEN save_progress(current_lesson_index, current_text_index)
                     ELSE UNCHANGED data
           ELSE UNCHANGED <<history, best_wpm, data>>
      /\ unlockTimers' = Append(unlockTimers, [due |-> now + UnlockDelay, stale |-> FALSE])
      /\ completions' = completions + 1
      /\ attemptCompletions' = attemptCompletions + 1

\* on_completion, for the text, start time, errors and backspace count that
\* on_text_changed has just stored in the session
on_completion(txt, st, errs, bc) ==
  LET record == SessionRecord(txt, st, errs, bc)
  IN  /\ readOnly' = TRUE
      /\ history' = add_session_record(history, record)
      /\ IF mode = "lesson"
           THEN /\ best_wpm' = record_best_wpm(best_wpm, current_lesson_index, record.wpm)
                /\ IF best_wpm' # best_wpm
                     THEN save_progress(current_lesson_index, current_text_index)
                     ELSE UNCHANGED data
           ELSE UNCHANGED <<best_wpm, data>>
      /\ unlockTimers' = Append(unlockTimers, [due |-> now + UnlockDelay, stale |-> FALSE])
      /\ completions' = completions + 1
      /\ attemptCompletions' = attemptCompletions + 1

\* on_text_changed making the session inactive when the input becomes empty
on_text_changed_idle_when_empty(txt, bc) ==
  LET begins == ~is_active /\ txt # <<>>
      st == IF begins THEN now ELSE start_time
      errs == build_target_highlight(current_target_text, txt)
  IN  /\ typed_text' = txt
      /\ is_active' = (txt # <<>>)
      /\ start_time' = st
      /\ errors' = errs
      /\ UNCHANGED key_errors
      /\ IF should_complete(txt, current_target_text)
           THEN on_completion(txt, st, errs, bc)
           ELSE UNCHANGED <<readOnly, history, best_wpm, data, unlockTimers,
                            completions, attemptCompletions>>

\* on_text_changed calling begin whenever an empty input receives text
on_text_changed_begins_again(txt, bc) ==
  LET begins == typed_text = <<>> /\ txt # <<>>
      st == IF begins THEN now ELSE start_time
      errs == build_target_highlight(current_target_text, txt)
  IN  /\ typed_text' = txt
      /\ is_active' = (is_active \/ begins)
      /\ start_time' = st
      /\ errors' = errs
      /\ UNCHANGED key_errors
      /\ IF should_complete(txt, current_target_text)
           THEN on_completion(txt, st, errs, bc)
           ELSE UNCHANGED <<readOnly, history, best_wpm, data, unlockTimers,
                            completions, attemptCompletions>>

\* on_text_changed testing for completion ahead of the call of begin
on_text_changed_completes_before_begin(txt, bc) ==
  LET begins == ~is_active /\ txt # <<>>
      completes == should_complete(txt, current_target_text)
      st == IF begins /\ ~completes THEN now ELSE start_time
      errs == build_target_highlight(current_target_text, txt)
  IN  /\ typed_text' = txt
      /\ is_active' = (is_active \/ (begins /\ ~completes))
      /\ start_time' = st
      /\ errors' = errs
      /\ UNCHANGED key_errors
      /\ IF completes
           THEN on_completion(txt, st, errs, bc)
           ELSE UNCHANGED <<readOnly, history, best_wpm, data, unlockTimers,
                            completions, attemptCompletions>>

\* on_text_changed, for the new content txt of the typing input; bc is the
\* backspace count the session holds when the signal arrives
on_text_changed(txt, bc) ==
  LET begins == ~is_active /\ txt # <<>>
      st == IF begins THEN now ELSE start_time
      errs == build_target_highlight(current_target_text, txt)
  IN  /\ typed_text' = txt
      /\ is_active' = (is_active \/ begins)
      /\ start_time' = st
      /\ errors' = errs
      /\ UNCHANGED key_errors
      /\ IF should_complete(txt, current_target_text)
           THEN on_completion(txt, st, errs, bc)
           ELSE UNCHANGED <<readOnly, history, best_wpm, data, unlockTimers,
                            completions, attemptCompletions>>

\* TypingSession.reset
session_reset ==
  /\ typed_text' = <<>>
  /\ start_time' = NoTime
  /\ is_active' = FALSE
  /\ backspace_count' = 0
  /\ key_errors' = EmptyDict

\* reset_exercise, for the target text in force when it runs: the input is
\* cleared with its signals blocked and made writable, the session is reset
\* and update_display recomputes the errors
reset_exercise(target) ==
  /\ readOnly' = FALSE
  /\ session_reset
  /\ errors' = build_target_highlight(target, <<>>)
  /\ unlockTimers' = [i \in DOMAIN unlockTimers |-> [unlockTimers[i] EXCEPT !.stale = TRUE]]
  /\ attemptCompletions' = 0

\* _unlock_text_input clearing the session as well
unlock_text_input_resets ==
  /\ readOnly' = FALSE
  /\ session_reset
  /\ errors' = 0

\* _unlock_text_input
unlock_text_input ==
  /\ readOnly' = FALSE
  /\ UNCHANGED session

\* load_current_text, with the lesson and text index already assigned
load_current_text(li, ti) ==
  LET lesson == Lessons[li + 1]
  IN  IF Len(lesson.texts) = 0
        THEN /\ current_text_index' = ti
             /\ current_target_text' = <<>>
             /\ reset_exercise(<<>>)
             /\ UNCHANGED data
        ELSE LET t == Min(ti, Len(lesson.texts) - 1)
             IN  /\ current_text_index' = t
                 /\ current_target_text' = lesson.texts[t + 1]
                 /\ reset_exercise(lesson.texts[t + 1])
                 /\ save_progress(li, t)

\* load_lesson(index, reset_text_index)
load_lesson(index, reset_text_index) ==
  IF ~(0 <= index /\ index < Len(Lessons))
    THEN UNCHANGED <<position, session, readOnly, unlockTimers, data, attemptCompletions>>
    ELSE /\ mode' = "lesson"
         /\ current_lesson_index' = index
         /\ load_current_text(index,
              IF reset_text_index \/ current_text_index >= Len(Lessons[index + 1].texts)
                THEN 0 ELSE current_text_index)

\* _enter_free_practice without its reset_exercise call
enter_free_practice_keeps_session ==
  /\ mode' = "free"
  /\ current_target_text' = custom_text
  /\ UNCHANGED <<session, readOnly, unlockTimers, attemptCompletions>>
  /\ UNCHANGED <<current_lesson_index, current_text_index, data>>

\* _enter_free_practice
enter_free_practice ==
  /\ mode' = "free"
  /\ current_target_text' = custom_text
  /\ reset_exercise(custom_text)
  /\ UNCHANGED <<current_lesson_index, current_text_index, data>>

\* _handle_row_change(row)
handle_row_change(row) ==
  IF row = -1
    THEN UNCHANGED <<position, session, readOnly, unlockTimers, data, attemptCompletions>>
    ELSE IF row = 0
      THEN enter_free_practice
      ELSE load_lesson(clamp_index(row - lesson_offset, Len(Lessons)), TRUE)

\* lesson_list.currentRow()
currentRow == IF mode = "free" THEN 0 ELSE lesson_offset + current_lesson_index

\* ------------------------------------------------------------------- actions
\* the bound on completions: a text change that completes the attempt is taken
\* only while fewer than MaxRecords completions have run
CanRecord(txt) ==
  should_complete(txt, current_target_text) => completions < MaxRecords

\* the user types the character c at the end of the typing input
TypeChar(c) ==
  /\ UNCHANGED <<score, startup, storage>>
  /\ ~readOnly
  /\ Len(typed_text) < MaxLen
  /\ CanRecord(Append(typed_text, c))
  /\ on_text_changed(Append(typed_text, c), backspace_count)
  /\ UNCHANGED <<position, custom_text, backspace_count, input_style, flashTimers,
                 settings, now>>

\* the user replaces the whole content of the typing input by pasting s
Paste(s) ==
  /\ UNCHANGED <<score, startup, storage>>
  /\ ~readOnly
  /\ CanRecord(s)
  /\ on_text_changed(s, backspace_count)
  /\ UNCHANGED <<position, custom_text, backspace_count, input_style, flashTimers,
                 settings, now>>

\* the user selects the whole content of the typing input and cuts it (or
\* removes it with the Delete key)
Cut ==
  /\ UNCHANGED <<score, startup, storage>>
  /\ ~readOnly
  /\ typed_text # <<>>
  /\ CanRecord(<<>>)
  /\ on_text_changed(<<>>, backspace_count)
  /\ UNCHANGED <<position, custom_text, backspace_count, input_style, flashTimers,
                 settings, now>>

\* _flash_strict_mode_warning
flash_strict_mode_warning ==
  /\ flashTimers' = Append(flashTimers, input_style)
  /\ input_style' = "warning"

\* eventFilter on a Backspace keypress, followed by what the QTextEdit does
\* with the key when the filter lets it through (cursor at the end)
Backspace ==
  /\ UNCHANGED <<score, startup, storage>>
  /\ UNCHANGED <<position, custom_text, settings, now>>
  /\ LET bc == count_backspace(settings.strict_mode, is_active, typed_text,
                                backspace_count)
     IN
     IF settings.strict_mode
       THEN /\ Len(flashTimers) < MaxFlash
            /\ flash_strict_mode_warning
            /\ backspace_count' = bc
            /\ UNCHANGED <<typed_text, start_time, errors, is_active, key_errors,
                           readOnly, unlockTimers, best_wpm, history, data,
                           completions, attemptCompletions>>
       ELSE     /\ bc <= MaxBackspace
                /\ backspace_count' = bc
                /\ UNCHANGED <<input_style, flashTimers>>
                /\ IF ~readOnly /\ typed_text # <<>>
                     THEN /\ CanRecord(SubSeq(typed_text, 1, Len(typed_text) - 1))
                          /\ on_text_changed(SubSeq(typed_text, 1, Len(typed_text) - 1), bc)
                     ELSE UNCHANGED <<typed_text, start_time, errors, is_active, key_errors,
                                      readOnly, unlockTimers, best_wpm, history, data,
                                      completions, attemptCompletions>>

\* the Reset button
Reset ==
  /\ UNCHANGED <<score, startup, storage>>
  /\ reset_exercise(current_target_text)
  /\ UNCHANGED <<position, custom_text, input_style, flashTimers, store, now, completions>>

\* the user selects another row of the lesson list
SelectRow(row) ==
  /\ UNCHANGED <<score, startup, storage>>
  /\ row # currentRow
  /\ handle_row_change(row)
  /\ UNCHANGED <<custom_text, input_style, flashTimers, best_wpm, history, settings,
                 now, completions>>

\* next_text starting over at the first lesson after the last text of the
\* last lesson
NextText_wraps_around ==
  /\ UNCHANGED <<score, startup, storage>>
  /\ UNCHANGED <<custom_text, input_style, flashTimers, best_wpm, history, settings,
                 now, completions>>
  /\ IF mode # "lesson"
       THEN UNCHANGED <<position, session, readOnly, unlockTimers, data, attemptCompletions>>
       ELSE IF current_text_index < Len(Lessons[current_lesson_index + 1].texts) - 1
         THEN /\ load_current_text(current_lesson_index, current_text_index + 1)
              /\ UNCHANGED <<mode, current_lesson_index>>
         ELSE IF current_lesson_index < Len(Lessons) - 1
           THEN handle_row_change(lesson_offset + current_lesson_index + 1)
           ELSE handle_row_change(lesson_offset)

\* next_text
NextText ==
  /\ UNCHANGED <<score, startup, storage>>
  /\ UNCHANGED <<custom_text, input_style, flashTimers, best_wpm, history, settings,
                 now, completions>>
  /\ IF mode # "lesson"
       THEN UNCHANGED <<position, session, readOnly, unlockTimers, data, attemptCompletions>>
       ELSE IF current_text_index < Len(Lessons[current_lesson_index + 1].texts) - 1
         THEN /\ load_current_text(current_lesson_index, current_text_index + 1)
              /\ UNCHANGED <<mode, current_lesson_index>>
         ELSE IF current_lesson_index < Len(Lessons) - 1
           THEN handle_row_change(lesson_offset + current_lesson_index + 1)
           ELSE UNCHANGED <<position, session, readOnly, unlockTimers, data,
                            attemptCompletions>>

\* the user edits the custom text box (shown in free practice only)
EditCustomText(s) ==
  /\ UNCHANGED <<score, startup, storage>>
  /\ mode = "free"
  /\ s # custom_text
  /\ custom_text' = s
  /\ UNCHANGED <<position, session, readOnly, timers, store, now, completions,
                 attemptCompletions>>

\* apply_custom_text
ApplyCustomText ==
  /\ UNCHANGED <<score, startup, storage>>
  /\ UNCHANGED <<custom_text, input_style, flashTimers, store, now, completions>>
  /\ IF mode # "free"
       THEN UNCHANGED <<position, session, readOnly, unlockTimers, attemptCompletions>>
       ELSE /\ current_target_text' = custom_text
            /\ reset_exercise(custom_text)
            /\ UNCHANGED <<mode, current_lesson_index, current_text_index>>

\* import_custom_text with a file chosen whose stripped content is s: the
\* custom text box is filled and apply_custom_text runs
ImportCustomText(s) ==
  /\ UNCHANGED <<score, startup, storage>>
  /\ UNCHANGED <<input_style, flashTimers, store, now, completions>>
  /\ IF mode # "free"
       THEN UNCHANGED <<position, custom_text, session, readOnly, unlockTimers,
                        attemptCompletions>>
       ELSE /\ custom_text' = s
            /\ current_target_text' = s
            /\ reset_exercise(s)
            /\ UNCHANGED <<mode, current_lesson_index, current_text_index>>

\* _save_settings of the settings dialog
SaveSettings(strict, penalty, weight) ==
  /\ UNCHANGED <<score, startup, storage>>
  /\ settings' = [strict_mode |-> strict, backspace_penalty |-> penalty,
                  backspace_accuracy_weight |-> weight]
  /\ UNCHANGED <<position, custom_text, session, readOnly, timers, best_wpm, history,
                 data, now, completions, attemptCompletions>>

\* the oldest pending unlock callback fires
UnlockFire ==
  /\ UNCHANGED <<score, startup, storage>>
  /\ unlockTimers # <<>>
  /\ Head(unlockTimers).due <= now
  /\ unlockTimers' = Tail(unlockTimers)
  /\ unlock_text_input
  /\ UNCHANGED <<position, custom_text, input_style, flashTimers, store, now,
                 completions, attemptCompletions>>

\* the oldest pending style-restore callback fires
FlashFire ==
  /\ UNCHANGED <<score, startup, storage>>
  /\ flashTimers # <<>>
  /\ input_style' = Head(flashTimers)
  /\ flashTimers' = Tail(flashTimers)
  /\ UNCHANGED <<position, custom_text, session, readOnly, unlockTimers, store, now,
                 completions, attemptCompletions>>

\* one second passes; callbacks that are due run first
Tick ==
  /\ UNCHANGED <<score, startup, storage>>
  /\ now < MaxTime
  /\ flashTimers = <<>>
  /\ \A i \in DOMAIN unlockTimers : unlockTimers[i].due > now
  /\ now' = now + 1
  /\ UNCHANGED <<position, custom_text, session, readOnly, timers, store,
                 completions, attemptCompletions>>

\* the fields every start shares: a fresh session, an empty store with the
\* default settings, no callback pending
InitRest ==
  /\ wpm_call = <<>>
  /\ accuracy_call = <<>>
  /\ startup = "running"
  /\ file = NoFile
  /\ key_error_stats = EmptyDict
  /\ random_texts = EmptyDict
  /\ store_calls = <<>>
  /\ typed_text = <<>>
  /\ start_time = NoTime
  /\ errors = 0
  /\ is_active = FALSE
  /\ backspace_count = 0
  /\ key_errors = EmptyDict
  /\ readOnly = FALSE
  /\ unlockTimers = <<>>
  /\ input_style = "normal"
  /\ flashTimers = <<>>
  /\ best_wpm = EmptyDict
  /\ history = <<>>
  /\ settings = [strict_mode |-> DEFAULT_STRICT_MODE,
                 backspace_penalty |-> DEFAULT_BACKSPACE_PENALTY,
                 backspace_accuracy_weight |-> DEFAULT_BACKSPACE_ACCURACY_WEIGHT]
  /\ data = [current_lesson_index |-> current_lesson_index,
             current_text_index |-> current_text_index]
  /\ now = 0
  /\ completions = 0
  /\ attemptCompletions = 0

\* __init__ and _initialize_state with no progress file: lesson 0, text 0
InitStart ==
  /\ mode = "lesson"
  /\ current_lesson_index = 0
  /\ current_text_index = 0
  /\ current_target_text = Lessons[1].texts[1]
  /\ custom_text = <<>>
  /\ InitRest

\* the start of an attempt in one of the places the lesson list and the custom
\* text box lead to: the first text of a lesson, or free practice with or
\* without a custom text
Init ==
  /\ \/ /\ mode = "lesson"
        /\ current_lesson_index \in 0..(Len(Lessons) - 1)
        /\ current_target_text = Lessons[current_lesson_index + 1].texts[1]
        /\ custom_text = <<>>
     \/ /\ mode = "free"
        /\ current_lesson_index = 0
        /\ custom_text \in CustomTexts
        /\ current_target_text = custom_text
  /\ current_text_index = 0
  /\ InitRest

\* one attempt after another at the same text, over time: typing, the Reset
\* button, the clock and the unlock callbacks (strict mode stays off)
Next ==
  \/ \E c \in Chars : TypeChar(c)
  \/ \E s \in PasteTexts : Paste(s)
  \/ Cut
  \/ Backspace
  \/ Reset
  \/ UnlockFire
  \/ Tick

Spec == Init /\ [][Next]_vars

\* one attempt after another at the same text with the settings dialog and the
\* strict-mode warning, within one second of the clock
NextStrict ==
  \/ \E c \in Chars : TypeChar(c)
  \/ \E s \in PasteTexts : Paste(s)
  \/ Cut
  \/ Backspace
  \/ Reset
  \/ \E strict \in BOOLEAN, p \in PenaltyVals, w \in WeightVals : SaveSettings(strict, p, w)
  \/ FlashFire

SpecStrict == Init /\ [][NextStrict]_vars

\* completions after which the navigation specification takes no more input
\* in the typing box
MaxNavRecords == 1

\* moving between lessons, texts and free practice while typing, within one
\* second of the clock
NextNav ==
  \/ (completions < MaxNavRecords /\ \E c \in Chars : TypeChar(c))
  \/ (completions < MaxNavRecords /\ \E s \in PasteTexts : Paste(s))
  \/ (completions < MaxNavRecords /\ Cut)
  \/ (completions < MaxNavRecords /\ Backspace)
  \/ Reset
  \/ \E row \in 0..Len(Lessons) : SelectRow(row)
  \/ NextText
  \/ \E s \in CustomTexts : EditCustomText(s)
  \/ ApplyCustomText
  \/ \E s \in CustomTexts : ImportCustomText(s)

SpecNav == InitStart /\ [][NextNav]_vars

\* ------------------------------------------------------- the history store
\* add_session_record calls made in the history specification
MaxAppends == 3

\* final speeds the appended records carry
WpmVals == {0, 24}

\* the record appended when the clock reads now
HistRecord(w) ==
  [ timestamp |-> now, lesson_index |-> 0, text_index |-> 0, lesson_name |-> "L0",
    wpm |-> w, accuracy |-> 1000, errors |-> 0, backspaces |-> 0,
    duration_seconds |-> 1, text_length |-> 2 ]

\* a history of n earlier records, oldest first, one per second before 0
StoredHistory(n) ==
  [i \in 1..n |->
    [ timestamp |-> i - n - 1, lesson_index |-> 0, text_index |-> 0,
      lesson_name |-> "L0", wpm |-> 12, accuracy |-> 1000, errors |-> 0,
      backspaces |-> 0, duration_seconds |-> 2, text_length |-> 2 ]]

\* progress_store.add_session_record(record), one call a second
AppendRecord(w) ==
  /\ UNCHANGED <<score, startup, storage>>
  /\ now < MaxAppends
  /\ history' = add_session_record(history, HistRecord(w))
  /\ now' = now + 1
  /\ UNCHANGED <<position, custom_text, session, readOnly, timers, best_wpm, settings,
                 data, completions, attemptCompletions>>

\* the store holds any number of earlier records up to its limit
InitHistory ==
  /\ wpm_call = <<>>
  /\ accuracy_call = <<>>
  /\ startup = "running"
  /\ file = NoFile
  /\ key_error_stats = EmptyDict
  /\ random_texts = EmptyDict
  /\ store_calls = <<>>
  /\ mode = "lesson"
  /\ current_lesson_index = 0
  /\ current_text_index = 0
  /\ current_target_text = Lessons[1].texts[1]
  /\ custom_text = <<>>
  /\ typed_text = <<>>
  /\ start_time = NoTime
  /\ errors = 0
  /\ is_active = FALSE
  /\ backspace_count = 0
  /\ key_errors = EmptyDict
  /\ readOnly = FALSE
  /\ unlockTimers = <<>>
  /\ input_style = "normal"
  /\ flashTimers = <<>>
  /\ best_wpm = EmptyDict
  /\ \E n \in 0..MAX_HISTORY_SIZE : history = StoredHistory(n)
  /\ settings = [strict_mode |-> DEFAULT_STRICT_MODE,
                 backspace_penalty |-> DEFAULT_BACKSPACE_PENALTY,
                 backspace_accuracy_weight |-> DEFAULT_BACKSPACE_ACCURACY_WEIGHT]
  /\ data = [current_lesson_index |-> 0, current_text_index |-> 0]
  /\ now = 0
  /\ completions = 0
  /\ attemptCompletions = 0

NextHistory == \E w \in WpmVals : AppendRecord(w)

SpecHistory == InitHistory /\ [][NextHistory]_vars

\* ------------------------------------------------- the TypingSession object
\* the largest tally record_key_error builds for one key
MaxKeyErrors == 2

\* the texts of at most MaxLen characters
Texts == UNION { [1..n -> Chars] : n \in 0..MaxLen }

\* TypingSession.reset leaving the key_errors tally in place
TypingSession_reset_keeps_key_errors ==
  /\ typed_text' = <<>>
  /\ start_time' = NoTime
  /\ errors' = 0
  /\ is_active' = FALSE
  /\ backspace_count' = 0
  /\ UNCHANGED key_errors

\* TypingSession.reset, all six assignments
TypingSession_reset ==
  /\ session_reset
  /\ errors' = 0

\* TypingSession.begin
TypingSession_begin ==
  /\ is_active' = TRUE
  /\ start_time' = now

\* session.reset()
CallReset ==
  /\ UNCHANGED <<score, startup, storage>>
  /\ TypingSession_reset
  /\ UNCHANGED <<position, custom_text, readOnly, timers, store, now, ghost>>

\* session.begin()
CallBegin ==
  /\ UNCHANGED <<score, startup, storage>>
  /\ TypingSession_begin
  /\ UNCHANGED <<typed_text, errors, backspace_count, key_errors>>
  /\ UNCHANGED <<position, custom_text, readOnly, timers, store, now, ghost>>

\* session.record_key_error(expected_key)
CallRecordKeyError(expected_key) ==
  /\ UNCHANGED <<score, startup, storage>>
  /\ Get(key_errors, expected_key, 0) < MaxKeyErrors
  /\ key_errors' = record_key_error(key_errors, expected_key)
  /\ UNCHANGED <<typed_text, start_time, errors, is_active, backspace_count>>
  /\ UNCHANGED <<position, custom_text, readOnly, timers, store, now, ghost>>

\* session.typed_text = ... as on_text_changed assigns it
AssignTypedText(txt) ==
  /\ UNCHANGED <<score, startup, storage>>
  /\ typed_text' = txt
  /\ UNCHANGED <<start_time, errors, is_active, backspace_count, key_errors>>
  /\ UNCHANGED <<position, custom_text, readOnly, timers, store, now, ghost>>

\* session.errors = mismatches as update_display assigns it
AssignErrors(mismatches) ==
  /\ UNCHANGED <<score, startup, storage>>
  /\ errors' = mismatches
  /\ UNCHANGED <<typed_text, start_time, is_active, backspace_count, key_errors>>
  /\ UNCHANGED <<position, custom_text, readOnly, timers, store, now, ghost>>

\* session.backspace_count += 1 as eventFilter does
IncrementBackspaceCount ==
  /\ UNCHANGED <<score, startup, storage>>
  /\ backspace_count < MaxBackspace
  /\ backspace_count' = backspace_count + 1
  /\ UNCHANGED <<typed_text, start_time, errors, is_active, key_errors>>
  /\ UNCHANGED <<position, custom_text, readOnly, timers, store, now, ghost>>

\* a TypingSession as the dataclass constructs it; its methods and the
\* assignments the window makes to its fields run in any order
NextSession ==
  \/ CallReset
  \/ CallBegin
  \/ \E k \in Chars \cup {""} : CallRecordKeyError(k)
  \/ \E txt \in Texts : AssignTypedText(txt)
  \/ \E n \in 0..MaxLen : AssignErrors(n)
  \/ IncrementBackspaceCount
  \/ Tick

SpecSession == InitStart /\ [][NextSession]_vars

\* ------------------------------------------------------ the WPM calculation
\* the longest text passed to _calculate_wpm
MaxTypedLen == 3
\* the longest elapsed time, in seconds
MaxElapsed == 6

\* the texts passed to _calculate_wpm, which looks at their length only
WpmTexts == { [i \in 1..n |-> "a"] : n \in 0..MaxTypedLen }

\* values of the backspace_penalty setting: the ends of the slider and the
\* default
PenaltyRange == {0, DEFAULT_BACKSPACE_PENALTY, 10}

\* the observation of one _calculate_wpm call: its arguments, the values it
\* reads from the session and the settings, and what it returns; timed is
\* false when elapsed is None and the session has no start_time
WpmCall(typed, timed, elapsed, wpm) ==
  [ typed |-> typed, timed |-> timed, elapsed |-> elapsed,
    backspace_count |-> backspace_count,
    penalty |-> settings.backspace_penalty, wpm |-> wpm ]

\* self._calculate_wpm(self.session.typed_text, elapsed)
CalculateWpm(elapsed) ==
  /\ wpm_call' = << WpmCall(typed_text, TRUE, elapsed,
                     calculate_wpm(typed_text, elapsed, backspace_count,
                                   settings.backspace_penalty)) >>
  /\ UNCHANGED <<position, custom_text, session, readOnly, timers, store, now, ghost,
                 accuracy_call, startup, storage>>

\* self._calculate_wpm(self.session.typed_text), elapsed None: 0 without a
\* start_time, else the time since start_time
CalculateWpmNow ==
  /\ wpm_call' =
       IF start_time = NoTime
         THEN << WpmCall(typed_text, FALSE, 0, 0) >>
         ELSE << WpmCall(typed_text, TRUE, now - start_time,
                         calculate_wpm(typed_text, now - start_time, backspace_count,
                                       settings.backspace_penalty)) >>
  /\ UNCHANGED <<position, custom_text, session, readOnly, timers, store, now, ghost,
                 accuracy_call, startup, storage>>

\* a session, idle or active since second 0, at any second up to MaxElapsed,
\* with any backspace count and any penalty setting
InitWpm ==
  /\ mode = "lesson"
  /\ current_lesson_index = 0
  /\ current_text_index = 0
  /\ current_target_text = Lessons[1].texts[1]
  /\ custom_text = <<>>
  /\ is_active \in BOOLEAN
  /\ typed_text \in (IF is_active THEN WpmTexts ELSE {<<>>})
  /\ start_time = (IF is_active THEN 0 ELSE NoTime)
  /\ backspace_count \in (IF is_active THEN 0..MaxBackspace ELSE {0})
  /\ errors = build_target_highlight(current_target_text, typed_text)
  /\ key_errors = EmptyDict
  /\ readOnly = FALSE
  /\ unlockTimers = <<>>
  /\ input_style = "normal"
  /\ flashTimers = <<>>
  /\ best_wpm = EmptyDict
  /\ history = <<>>
  /\ \E p \in PenaltyRange :
        settings = [strict_mode |-> DEFAULT_STRICT_MODE,
                    backspace_penalty |-> p,
                    backspace_accuracy_weight |-> DEFAULT_BACKSPACE_ACCURACY_WEIGHT]
  /\ data = [current_lesson_index |-> 0, current_text_index |-> 0]
  /\ now \in 0..MaxElapsed
  /\ completions = 0
  /\ attemptCompletions = 0
  /\ wpm_call = <<>>
  /\ accuracy_call = <<>>
  /\ startup = "running"
  /\ file = NoFile
  /\ key_error_stats = EmptyDict
  /\ random_texts = EmptyDict
  /\ store_calls = <<>>

\* _calculate_wpm called on the session, between backspace keypresses
NextWpm ==
  \/ \E elapsed \in (-1)..MaxElapsed : CalculateWpm(elapsed)
  \/ CalculateWpmNow
  \/ IncrementBackspaceCount

SpecWpm == InitWpm /\ [][NextWpm]_vars

\* ------------------------------------------------- the accuracy calculation
\* the texts of at most MaxTypedLen characters
ScoreTexts == UNION { [1..n -> Chars] : n \in 0..MaxTypedLen }

\* values of the backspace_accuracy_weight setting in tenths: the ends of the
\* slider and the default
WeightRange == {0, DEFAULT_BACKSPACE_ACCURACY_WEIGHT, 20}

\* self._calculate_accuracy(self.session.typed_text), observed with the values
\* it reads from the window, the session and the settings
CalculateAccuracy ==
  /\ accuracy_call' =
       << [ typed |-> typed_text, target |-> current_target_text,
            backspace_count |-> backspace_count,
            weight |-> settings.backspace_accuracy_weight,
            accuracy |-> calculate_accuracy(typed_text, current_target_text, errors,
                                            backspace_count,
                                            settings.backspace_accuracy_weight) ] >>
  /\ UNCHANGED <<position, custom_text, session, readOnly, timers, store, now, ghost,
                 wpm_call, startup, storage>>

\* free practice with any target, a session idle or active with any typed
\* text, the errors update_display has stored for it, any backspace count and
\* any weight setting
InitAccuracy ==
  /\ mode = "free"
  /\ current_lesson_index = 0
  /\ current_text_index = 0
  /\ current_target_text \in ScoreTexts
  /\ custom_text = current_target_text
  /\ is_active \in BOOLEAN
  /\ typed_text \in (IF is_active THEN ScoreTexts ELSE {<<>>})
  /\ start_time = (IF is_active THEN 0 ELSE NoTime)
  /\ backspace_count \in (IF is_active THEN 0..MaxBackspace ELSE {0})
  /\ errors = build_target_highlight(current_target_text, typed_text)
  /\ key_errors = EmptyDict
  /\ readOnly = FALSE
  /\ unlockTimers = <<>>
  /\ input_style = "normal"
  /\ flashTimers = <<>>
  /\ best_wpm = EmptyDict
  /\ history = <<>>
  /\ \E w \in WeightRange :
        settings = [strict_mode |-> DEFAULT_STRICT_MODE,
                    backspace_penalty |-> DEFAULT_BACKSPACE_PENALTY,
                    backspace_accuracy_weight |-> w]
  /\ data = [current_lesson_index |-> 0, current_text_index |-> 0]
  /\ now = 0
  /\ completions = 0
  /\ attemptCompletions = 0
  /\ wpm_call = <<>>
  /\ accuracy_call = <<>>
  /\ startup = "running"
  /\ file = NoFile
  /\ key_error_stats = EmptyDict
  /\ random_texts = EmptyDict
  /\ store_calls = <<>>

\* _calculate_accuracy called on the session, between backspace keypresses
NextAccuracy ==
  \/ CalculateAccuracy
  \/ IncrementBackspaceCount

SpecAccuracy == InitAccuracy /\ [][NextAccuracy]_vars

\* ------------------------------------------------------------------ startup
\* the largest lesson or text index found in the progress file
MaxStoredIndex == 3

\* JSON values of an index field: integers in and out of range, a string that
\* is not a number, null
StoredIndexValues ==
  { [t |-> "int", v |-> n] : n \in (-1)..MaxStoredIndex }
    \cup { [t |-> "str", v |-> 0], [t |-> "null", v |-> 0], Absent }

\* JSON values of the best_wpm field: an object, or an array
StoredBestWpm ==
  { AbsentDict, [t |-> "dict", v |-> EmptyDict], [t |-> "dict", v |-> Put(EmptyDict, 0, 12)],
    [t |-> "list", v |-> EmptyDict] }

\* JSON values of the settings field: an object (here with strict_mode true),
\* or a string
StoredSettings ==
  { AbsentDict, [t |-> "dict", v |-> Put(EmptyDict, "strict_mode", 1)],
    [t |-> "str", v |-> EmptyDict] }

\* the contents of typing_progress.json that startup may find
Documents ==
  { Document(k, Absent, Absent, AbsentDict, AbsentDict) :
      k \in {"missing", "invalid", "undecodable", "array"} }
    \cup { Document("object", li, ti, best, st) :
             li \in StoredIndexValues, ti \in StoredIndexValues,
             best \in StoredBestWpm, st \in StoredSettings }

\* ProgressStore.load: the fields of progress_store.data after loading; only a
\* JSON object replaces the defaults
loaded(doc, field, default) ==
  IF doc.kind = "object" /\ doc[field].t # "absent" THEN doc[field] ELSE default

\* int(value) raises ValueError for a string that is not a number and
\* TypeError for None
int_raises(value) == value.t \in {"str", "null"}

\* which documents make TypingPracticeApp() raise: read_text raises
\* UnicodeDecodeError, which load does not catch; .items() of a best_wpm that
\* is not a dict; int() of an index that is not a number
construct_raises(doc) ==
  \/ doc.kind = "undecodable"
  \/ loaded(doc, "best_wpm", [t |-> "dict", v |-> EmptyDict]).t # "dict"
  \/ int_raises(loaded(doc, "current_lesson_index", [t |-> "int", v |-> 0]))
  \/ int_raises(loaded(doc, "current_text_index", [t |-> "int", v |-> 0]))

\* __init__ reading current_text_index without max(0, ...)
init_text_index_unchecked(stored) == stored

\* __init__: self.current_text_index = max(0, int(...))
init_text_index(stored) == Max(0, stored)

\* list[i] in Python, a negative i counting from the end
py_index(list, i) == IF i < 0 THEN list[Len(list) + i + 1] ELSE list[i + 1]

\* the text index after __init__, _initialize_state, load_lesson with
\* reset_text_index False and load_current_text
startup_text_index(li, stored) ==
  LET texts == Lessons[li + 1].texts
      t0 == init_text_index(stored)
      t1 == IF Len(texts) > 0 THEN Min(t0, Len(texts) - 1) ELSE 0
      t2 == IF t1 >= Len(texts) THEN 0 ELSE t1
  IN  Min(t2, Len(texts) - 1)

\* TypingPracticeApp(): ProgressStore.load, __init__ and _initialize_state,
\* which ends in load_lesson, load_current_text, reset_exercise and
\* _save_progress; the write of the progress file may fail
Start ==
  /\ startup = "constructing"
  /\ UNCHANGED <<custom_text, input_style, flashTimers, history, now, completions, score,
                 key_error_stats, random_texts, store_calls>>
  /\ IF construct_raises(file)
       THEN /\ startup' = "raised"
            /\ UNCHANGED <<position, session, readOnly, unlockTimers, best_wpm, settings,
                           data, attemptCompletions, file>>
       ELSE LET zero == [t |-> "int", v |-> 0]
                li == clamp_index(loaded(file, "current_lesson_index", zero).v, Len(Lessons))
                ti == startup_text_index(li, loaded(file, "current_text_index", zero).v)
                target == py_index(py_index(Lessons, li).texts, ti)
                best == loaded(file, "best_wpm", AbsentDict).v
                st == loaded(file, "settings", AbsentDict)
                strict == IF st.t = "dict" /\ "strict_mode" \in DOMAIN st.v
                            THEN st.v["strict_mode"] = 1
                            ELSE DEFAULT_STRICT_MODE
                written == Document("object", [t |-> "int", v |-> li], [t |-> "int", v |-> ti],
                                    [t |-> "dict", v |-> best],
                                    IF st.t = "str" THEN st
                                    ELSE [t |-> "dict",
                                          v |-> Put(EmptyDict, "strict_mode",
                                                    IF strict THEN 1 ELSE 0)])
            IN  /\ startup' = "running"
                /\ mode' = "lesson"
                /\ current_lesson_index' = li
                /\ current_text_index' = ti
                /\ current_target_text' = target
                /\ reset_exercise(target)
                /\ best_wpm' = best
                /\ settings' = [settings EXCEPT !.strict_mode = strict]
                /\ save_progress(li, ti)
                /\ file' \in {file, written}

\* before TypingPracticeApp() runs: any progress file on disk, the fields at
\* the values the class bodies and ProgressStore.__init__ give them
InitConstructing ==
  /\ startup = "constructing"
  /\ file \in Documents
  /\ mode = "lesson"
  /\ current_lesson_index = 0
  /\ current_text_index = 0
  /\ current_target_text = <<>>
  /\ custom_text = <<>>
  /\ typed_text = <<>>
  /\ start_time = NoTime
  /\ errors = 0
  /\ is_active = FALSE
  /\ backspace_count = 0
  /\ key_errors = EmptyDict
  /\ readOnly = FALSE
  /\ unlockTimers = <<>>
  /\ input_style = "normal"
  /\ flashTimers = <<>>
  /\ best_wpm = EmptyDict
  /\ history = <<>>
  /\ settings = [strict_mode |-> DEFAULT_STRICT_MODE,
                 backspace_penalty |-> DEFAULT_BACKSPACE_PENALTY,
                 backspace_accuracy_weight |-> DEFAULT_BACKSPACE_ACCURACY_WEIGHT]
  /\ data = [current_lesson_index |-> 0, current_text_index |-> 0]
  /\ now = 0
  /\ completions = 0
  /\ attemptCompletions = 0
  /\ wpm_call = <<>>
  /\ accuracy_call = <<>>
  /\ key_error_stats = EmptyDict
  /\ random_texts = EmptyDict
  /\ store_calls = <<>>

\* startup from any progress file, then lesson selections, next_text, resets
\* and typing in the running application
NextStartup ==
  \/ Start
  \/ (startup = "running" /\ \E row \in 0..Len(Lessons) : SelectRow(row))
  \/ (startup = "running" /\ NextText)
  \/ (startup = "running" /\ Reset)
  \/ (startup = "running" /\ completions < MaxNavRecords /\ \E c \in Chars : TypeChar(c))

SpecStartup == InitConstructing /\ [][NextStartup]_vars

\* ------------------------------------------------------- the progress store
\* write_text calls followed in one run of the store
MaxSaves == 3

\* key_errors dicts a finished session can hand to update_key_error_stats
KeyErrorMaps ==
  { EmptyDict, Put(EmptyDict, "a", 1), Put(EmptyDict, "a", 2),
    Put(Put(EmptyDict, "a", 1), "b", 1) }

\* generated texts handed to set_random_text
RandomTexts == { <<"a">>, <<"b", "a">> }

\* json.dumps(self.data): the fields of the document the store operations
\* change
dumped(h, st, rt, kes) ==
  [ kind |-> "object", session_history |-> h, settings |-> st, random_texts |-> rt,
    key_error_stats |-> kes ]

\* update_key_error_stats storing the passed count in place of the sum
update_key_error_stats_overwrites(stats, ke) ==
  [k \in DOMAIN stats \cup DOMAIN ke |-> IF k \in DOMAIN ke THEN ke[k] ELSE stats[k]]

\* ProgressStore.update_key_error_stats: stats[key] = stats.get(key, 0) + count
\* for every item of key_errors
update_key_error_stats(stats, ke) ==
  [k \in DOMAIN stats \cup DOMAIN ke |->
    IF k \in DOMAIN ke THEN Get(stats, k, 0) + ke[k] ELSE stats[k]]

\* ProgressStore.set_setting on the settings dict
set_setting(st, key, value) == Put(st, key, value)

\* ProgressStore.set_random_text on the random_texts dict (the key is
\* str(lesson_index))
set_random_text(rt, lesson_index, text) == Put(rt, lesson_index, text)

\* ProgressStore.save without its try/except: the OSError of write_text
\* reaches the caller
save_unguarded(op, arg, ok) ==
  /\ file' = IF ok THEN dumped(history', settings', random_texts', key_error_stats')
                   ELSE file
  /\ store_calls' = Append(store_calls, [op |-> op, arg |-> arg, ok |-> ok])
  /\ startup' = IF ok THEN startup ELSE "raised"

\* ProgressStore.save called at the end of operation op: one write_text of the
\* dumped data, which replaces the file (ok) or raises OSError, swallowed
save(op, arg, ok) ==
  /\ file' = IF ok THEN dumped(history', settings', random_texts', key_error_stats')
                   ELSE file
  /\ store_calls' = Append(store_calls, [op |-> op, arg |-> arg, ok |-> ok])
  /\ startup' = startup

\* progress_store.add_session_record(record)
AddSessionRecord(w) ==
  /\ Len(store_calls) < MaxSaves
  /\ history' = add_session_record(history, HistRecord(w))
  /\ UNCHANGED <<settings, key_error_stats, random_texts>>
  /\ \E ok \in BOOLEAN : save("add_session_record", HistRecord(w), ok)
  /\ UNCHANGED <<position, custom_text, session, readOnly, timers, best_wpm, data, now,
                 ghost, score>>

\* progress_store.set_setting(key, value)
SetSetting(key, value) ==
  /\ Len(store_calls) < MaxSaves
  /\ settings' = set_setting(settings, key, value)
  /\ UNCHANGED <<history, key_error_stats, random_texts>>
  /\ \E ok \in BOOLEAN : save("set_setting", [key |-> key, value |-> value], ok)
  /\ UNCHANGED <<position, custom_text, session, readOnly, timers, best_wpm, data, now,
                 ghost, score>>

\* progress_store.update_key_error_stats(key_errors)
UpdateKeyErrorStats(ke) ==
  /\ Len(store_calls) < MaxSaves
  /\ key_error_stats' = update_key_error_stats(key_error_stats, ke)
  /\ UNCHANGED <<history, settings, random_texts>>
  /\ \E ok \in BOOLEAN : save("update_key_error_stats", ke, ok)
  /\ UNCHANGED <<position, custom_text, session, readOnly, timers, best_wpm, data, now,
                 ghost, score>>

\* progress_store.set_random_text(lesson_index, text)
SetRandomText(lesson_index, text) ==
  /\ Len(store_calls) < MaxSaves
  /\ random_texts' = set_random_text(random_texts, lesson_index, text)
  /\ UNCHANGED <<history, settings, key_error_stats>>
  /\ \E ok \in BOOLEAN :
       save("set_random_text", [lesson_index |-> lesson_index, text |-> text], ok)
  /\ UNCHANGED <<position, custom_text, session, readOnly, timers, best_wpm, data, now,
                 ghost, score>>

\* the operations of the store that end in save, in any order, each write
\* succeeding or failing
NextStore ==
  \/ \E w \in WpmVals : AddSessionRecord(w)
  \/ \E strict \in BOOLEAN : SetSetting("strict_mode", strict)
  \/ \E penalty \in PenaltyRange : SetSetting("backspace_penalty", penalty)
  \/ \E ke \in KeyErrorMaps : UpdateKeyErrorStats(ke)
  \/ \E text \in RandomTexts : SetRandomText(Len(Lessons) - 1, text)

SpecStore == InitStart /\ [][NextStore]_vars

\* ---------------------------------------------------------------- properties
\* a step in which the user changes the text of the typing input
TextChange ==
  \/ \E c \in Chars : TypeChar(c)
  \/ \E s \in PasteTexts : Paste(s)
  \/ Cut
  \/ (Backspace /\ typed_text' # typed_text)

\* the unlock callback of the latest completion is pending and no reset has
\* run since that completion
Frozen == unlockTimers # <<>> /\ ~unlockTimers[Len(unlockTimers)].stale

\* the Idle state of an attempt
Idle == ~is_active /\ typed_text = <<>> /\ start_time = NoTime /\ ~readOnly

\* C1: between two resets on_completion runs at most once, also when the
\* text is edited away from the target and back after the input is unlocked.
C1_CompletionOncePerAttempt == attemptCompletions <= 1

\* C2: a text change runs on_completion exactly when it leaves typed_text
\* equal to a non-empty target; nothing but a text change runs it, and with an
\* empty target it never runs.
C2_CompletionIffTargetTyped ==
  [][ /\ TextChange =>
           ((completions' = completions + 1) <=>
              (typed_text' = current_target_text' /\ current_target_text' # <<>>))
      /\ (completions' # completions) => (TextChange /\ completions' = completions + 1)
      /\ (current_target_text = <<>>) => (completions' = completions)
    ]_vars

C2_Witness ==
  /\ completions = 1
  /\ typed_text = current_target_text
  /\ history[1].duration_seconds >= 1
  /\ readOnly

\* C3: while the unlock callback of the latest completion is pending and no
\* reset has run, nothing but a reset changes typed_text.
C3_FrozenUntilOwnUnlock ==
  [][ (Frozen /\ typed_text' # typed_text) => Reset ]_vars

\* C4: an unlock callback that fires after a reset changes nothing: the input
\* stays as locked or unlocked as it was, and the session, the position and the
\* store are untouched.
C4_StaleUnlockIsNoOp ==
  [][ (UnlockFire /\ Head(unlockTimers).stale) =>
        UNCHANGED <<readOnly, session, position, store>> ]_vars

\* C5 as stated: when the unlock callback fires with no reset in between, the
\* session is back in Idle.
C5_UnlockEntersIdle ==
  [][ (UnlockFire /\ ~Head(unlockTimers).stale) => Idle' ]_vars

\* C5 as amended: the unlock callback of an attempt only makes the input
\* writable again, the session stays active with its typed text; the attempt
\* re-enters Idle by a reset alone, and a reset does so from every state.
C5_UnlockKeepsSessionResetEntersIdle ==
  [][ /\ (UnlockFire /\ ~Head(unlockTimers).stale) =>
           (~readOnly' /\ is_active' /\ UNCHANGED session)
      /\ Reset => Idle'
      /\ (is_active /\ ~is_active') => Reset
    ]_vars

C5_Witness ==
  /\ completions = 1
  /\ unlockTimers = <<>>
  /\ ~readOnly
  /\ is_active
  /\ typed_text = current_target_text
  /\ typed_text # <<>>

\* C6: with strict mode on, a Backspace keypress leaves the session (typed
\* text, backspace count and every other field), the lock, the position and the
\* store as they were.
C6_StrictBackspaceDiscarded ==
  [][ (Backspace /\ settings.strict_mode) =>
        UNCHANGED <<session, readOnly, unlockTimers, position, store>> ]_vars

C6_Witness ==
  /\ settings.strict_mode
  /\ input_style = "warning"
  /\ flashTimers # <<>>
  /\ is_active
  /\ typed_text # <<>>
  /\ ~readOnly

\* C7: with strict mode off, a Backspace keypress adds exactly one to
\* backspace_count when the session is active and typed_text is non-empty, and
\* leaves it alone otherwise; no other step increases backspace_count.
C7_BackspaceCounted ==
  [][ /\ (Backspace /\ ~settings.strict_mode /\ is_active /\ typed_text # <<>>) =>
           backspace_count' = backspace_count + 1
      /\ (Backspace /\ ~settings.strict_mode /\ ~(is_active /\ typed_text # <<>>)) =>
           backspace_count' = backspace_count
      /\ (backspace_count' > backspace_count) => (Backspace /\ ~settings.strict_mode)
    ]_vars

C7_Witness ==
  /\ ~settings.strict_mode
  /\ backspace_count = 1
  /\ is_active
  /\ typed_text = <<>>
  /\ completions = 0

\* C8: when the character just typed lies inside the target and differs from
\* the target character at its position, the key_errors tally of that target
\* character grows by one.
C8_MistypedKeyRecorded ==
  [][ \A c \in Chars :
        LET n == Len(typed_text) + 1
        IN  (TypeChar(c) /\ n <= Len(current_target_text) /\ c # current_target_text[n]) =>
              Get(key_errors', current_target_text[n], 0)
                = Get(key_errors, current_target_text[n], 0) + 1
    ]_vars

\* C9: after add_session_record the history has at most MAX_HISTORY_SIZE
\* records: the new record last, before it the most recent earlier records in
\* their order, the oldest dropped when there is no room.
C9_HistoryKeepsNewest ==
  [][ \A w \in WpmVals :
        AppendRecord(w) =>
          LET n == Len(history)
              m == Len(history')
          IN  /\ m <= MAX_HISTORY_SIZE
              /\ m = Min(n + 1, MAX_HISTORY_SIZE)
              /\ history'[m] = HistRecord(w)
              /\ \A i \in 1..(m - 1) : history'[i] = history[i + (n + 1 - m)]
    ]_vars

C9_Witness ==
  /\ Len(history) = MAX_HISTORY_SIZE
  /\ now = 1
  /\ history[MAX_HISTORY_SIZE].timestamp = 0
  /\ history[1].timestamp = 1 - MAX_HISTORY_SIZE

\* C10: the best WPM of a lesson changes only when a completion in lesson
\* mode of that lesson records a WPM strictly above the stored best (0 when
\* absent), and then becomes that WPM; it never decreases, and a free-practice
\* completion changes no entry.
C10_BestWpmOnlyRaised ==
  [][ \A k \in 0..(Len(Lessons) - 1) :
        LET old == Get(best_wpm, k, 0)
            new == Get(best_wpm', k, 0)
            completes == completions' = completions + 1
            wpm == history'[Len(history')].wpm
            here == mode = "lesson" /\ current_lesson_index = k
        IN  /\ new >= old
            /\ ((k \in DOMAIN best_wpm') # (k \in DOMAIN best_wpm) \/ new # old) =>
                 (completes /\ here /\ wpm > old /\ new = wpm)
            /\ (completes /\ here /\ wpm > old) => new = wpm
            /\ DOMAIN best_wpm' \subseteq 0..(Len(Lessons) - 1)
    ]_vars

C10_Witness ==
  /\ Len(history) = 2
  /\ mode = "lesson"
  /\ history[1].lesson_index = current_lesson_index
  /\ history[2].lesson_index = current_lesson_index
  /\ history[1].wpm > 0
  /\ history[2].wpm < history[1].wpm
  /\ current_lesson_index \in DOMAIN best_wpm
  /\ best_wpm[current_lesson_index] = history[1].wpm

C12_ErrorsAreMismatches ==
  /\ errors = Cardinality({i \in DOMAIN typed_text :
                             /\ i \in DOMAIN current_target_text
                             /\ typed_text[i] # current_target_text[i]})
  /\ errors <= Min(Len(typed_text), Len(current_target_text))

C12_Witness ==
  /\ mode = "free"
  /\ current_target_text = <<"b", "a">>
  /\ typed_text = <<"a", "b">>
  /\ errors = 2

\* C13: backspace_count never decreases within an attempt: a text change, a
\* Backspace keypress, a completion, an unlock callback, a change of settings
\* or the clock leaves it equal or larger; it becomes smaller only through a
\* reset, which sets it to 0.
C13_BackspaceCountMonotone ==
  [][ /\ (backspace_count' < backspace_count) => Reset
      /\ Reset => backspace_count' = 0
      /\ (TextChange \/ Backspace \/ UnlockFire \/ Tick
            \/ \E strict \in BOOLEAN, p \in PenaltyVals, w \in WeightVals :
                  SaveSettings(strict, p, w))
           => backspace_count' >= backspace_count
    ]_vars

C13_Witness ==
  /\ backspace_count = 1
  /\ completions = 1
  /\ unlockTimers = <<>>
  /\ ~readOnly
  /\ is_active
  /\ typed_text = current_target_text

\* C14: an active session stays active through every step that is not a
\* reset: a text change (also one that empties typed_text), a Backspace
\* keypress, a completion, an unlock callback and the clock leave is_active
\* true.
C14_ActiveUntilReset ==
  [][ /\ (is_active /\ (TextChange \/ Backspace \/ UnlockFire \/ Tick)) => is_active'
      /\ (is_active /\ completions' # completions) => is_active'
      /\ (is_active /\ typed_text # <<>> /\ typed_text' = <<>> /\ ~Reset) => is_active'
    ]_vars

C14_Witness ==
  /\ is_active
  /\ typed_text = <<>>
  /\ completions = 1
  /\ unlockTimers = <<>>
  /\ ~readOnly

\* C15: start_time is absent exactly while the session is inactive; the text
\* change that makes the typed text of an inactive session non-empty makes the
\* session active and records the time of that change as start_time; a text
\* change of an active session (also emptying and refilling typed_text) leaves
\* start_time as it is.
C15_StartTimeSetOnce ==
  [][ /\ (~is_active => start_time = NoTime) /\ (~is_active' => start_time' = NoTime)
      /\ (is_active => start_time # NoTime) /\ (is_active' => start_time' # NoTime)
      /\ (TextChange /\ ~is_active /\ typed_text' # <<>>) =>
            (is_active' /\ start_time' = now)
      /\ (TextChange /\ ~is_active /\ typed_text' = <<>>) => ~is_active'
      /\ (TextChange /\ is_active) => start_time' = start_time
      /\ (start_time' # start_time) => (Reset \/ (TextChange /\ ~is_active))
    ]_vars

C15_Witness ==
  /\ is_active
  /\ start_time = 0
  /\ Len(history) = 1
  /\ history[1].timestamp = 1
  /\ history[1].duration_seconds = 1
  /\ history[1].backspaces = 1

\* C16: TypingSession.reset, called on a session in any state, leaves
\* typed_text empty, start_time absent, errors 0, backspace_count 0, key_errors
\* empty and is_active false.
C16_ResetClearsSession ==
  [][ CallReset =>
        /\ typed_text' = <<>>
        /\ start_time' = NoTime
        /\ errors' = 0
        /\ backspace_count' = 0
        /\ key_errors' = EmptyDict
        /\ is_active' = FALSE
    ]_vars

\* a session with every field set, on which reset runs next
C16_Witness ==
  /\ typed_text # <<>>
  /\ start_time = 1
  /\ errors > 0
  /\ backspace_count > 0
  /\ DOMAIN key_errors = Chars
  /\ key_errors["a"] = 2
  /\ is_active
  /\ ENABLED CallReset

\* C17: a step in which on_completion runs ends with the session active and
\* start_time set, and the record measures the attempt from that start_time;
\* this also holds when the whole target is pasted into an Idle session, which
\* begins and completes in the same text change.
C17_CompletedOnlyWhenActive ==
  [][ /\ (completions' = completions + 1) =>
            /\ is_active'
            /\ start_time' # NoTime
            /\ start_time' <= now
            /\ history'[Len(history')].duration_seconds = now - start_time'
      /\ \A s \in PasteTexts :
            (Idle /\ Paste(s) /\ s = current_target_text) =>
               /\ completions' = completions + 1
               /\ is_active'
               /\ start_time' = now
               /\ readOnly'
    ]_vars

C17_Witness ==
  /\ completions = 1
  /\ readOnly
  /\ is_active
  /\ start_time = 1
  /\ now = 1
  /\ backspace_count = 0
  /\ typed_text = current_target_text
  /\ Len(typed_text) = 2
  /\ history[1].duration_seconds = 0

\* C18: _calculate_wpm returns 0 when typed is empty, when there is no
\* start_time or when elapsed <= 0, and otherwise
\* max(0, floor((len(typed) / 5) / (elapsed / 60)) - backspace_count * penalty),
\* so that 3 characters in 6 seconds without backspaces give 6.
C18_WpmFormula ==
  wpm_call # <<>> =>
    LET c == wpm_call[1]
    IN  c.wpm = IF c.typed = <<>> \/ ~c.timed \/ c.elapsed <= 0
                  THEN 0
                  ELSE Max(0, ((12 * Len(c.typed)) \div c.elapsed)
                                - c.backspace_count * c.penalty)

\* C19: with the typed text, the elapsed time and a non-negative penalty the
\* same, a call of _calculate_wpm with a larger or equal backspace_count
\* returns a smaller or equal result, and no call returns less than 0.
C19_WpmMonotoneInBackspaces ==
  [][ /\ (wpm_call # <<>> /\ wpm_call' # <<>>) =>
            LET c == wpm_call[1]
                d == wpm_call'[1]
            IN  (/\ d.typed = c.typed /\ d.timed = c.timed /\ d.elapsed = c.elapsed
                 /\ d.penalty = c.penalty /\ c.penalty >= 0
                 /\ d.backspace_count >= c.backspace_count) => d.wpm <= c.wpm
      /\ wpm_call' # <<>> => wpm_call'[1].wpm >= 0
    ]_vars

C19_Witness ==
  /\ wpm_call # <<>>
  /\ Len(wpm_call[1].typed) = 1
  /\ wpm_call[1].elapsed = MaxElapsed
  /\ wpm_call[1].penalty = DEFAULT_BACKSPACE_PENALTY
  /\ wpm_call[1].backspace_count = 1
  /\ wpm_call[1].wpm = 0
  /\ backspace_count = 1

\* C20: _calculate_accuracy returns 100 for an empty typed text, whatever
\* the target and the settings; otherwise it returns
\* max(len(typed) - (mismatches + max(len(typed) - len(target), 0)
\*     + backspace_count * weight), 0) / len(typed) * 100,
\* the mismatches counted inside both texts. A three-character text with one
\* mismatch and no backspace scores (2/3)*100, and the three-character target
\* typed with one backspace at weight 0.5 scores (0.5/3)*100 below 100.
C20_AccuracyFormula ==
  accuracy_call # <<>> =>
    LET c == accuracy_call[1]
        len == Len(c.typed)
        mismatch_count == Cardinality({i \in DOMAIN c.typed :
                                         i \in DOMAIN c.target /\ c.typed[i] # c.target[i]})
        extra_errors == Max(len - Len(c.target), 0)
        \* ten times the claimed number of correct characters
        correct10 == Max(10 * len - (10 * (mismatch_count + extra_errors)
                                      + c.backspace_count * c.weight), 0)
    IN  /\ c.accuracy.den > 0
        /\ len = 0 => c.accuracy.num = 100 * c.accuracy.den
        /\ len > 0 => c.accuracy.num * (10 * len) = 100 * correct10 * c.accuracy.den
        /\ (len = 3 /\ Len(c.target) = 3 /\ mismatch_count = 1 /\ c.backspace_count = 0)
              => 3 * c.accuracy.num = 200 * c.accuracy.den
        /\ (len = 3 /\ c.typed = c.target /\ c.backspace_count = 1 /\ c.weight = 5)
              => 3 * (100 * c.accuracy.den - c.accuracy.num) = 50 * c.accuracy.den

C20_Witness ==
  /\ accuracy_call # <<>>
  /\ Len(accuracy_call[1].typed) = 3
  /\ accuracy_call[1].typed = accuracy_call[1].target
  /\ accuracy_call[1].backspace_count = 1
  /\ accuracy_call[1].weight = DEFAULT_BACKSPACE_ACCURACY_WEIGHT
  /\ 3 * accuracy_call[1].accuracy.num = 250 * accuracy_call[1].accuracy.den

\* C21: once the application runs, after startup from any stored lesson and
\* text index and after any lesson selections, next_text calls and resets,
\* current_lesson_index is a valid index of the lesson list and
\* current_text_index a valid index of the texts of that lesson, the target
\* being that text in lesson mode; a progress file whose indices are integers,
\* in range or not, never makes startup raise on their account.
C21_IndicesInRange ==
  /\ startup = "running" =>
        /\ current_lesson_index \in 0..(Len(Lessons) - 1)
        /\ current_text_index \in 0..(Len(Lessons[current_lesson_index + 1].texts) - 1)
        /\ mode = "lesson" =>
              current_target_text =
                Lessons[current_lesson_index + 1].texts[current_text_index + 1]
  /\ ( /\ startup = "raised"
       /\ file.kind = "object"
       /\ file.best_wpm.t \in {"absent", "dict"} )
       => ( file.current_lesson_index.t \notin {"int", "absent"}
            \/ file.current_text_index.t \notin {"int", "absent"} )

\* the application runs with clamped indices while the file, whose rewrite
\* failed, still holds the indices out of range
C21_Witness ==
  /\ startup = "running"
  /\ file.current_lesson_index = [t |-> "int", v |-> MaxStoredIndex]
  /\ file.current_text_index = [t |-> "int", v |-> -1]
  /\ current_lesson_index = Len(Lessons) - 1
  /\ current_text_index = 0
  /\ typed_text = <<>>

\* C22: whatever typing_progress.json holds (no file, invalid JSON, a top
\* level that is not an object, missing fields, fields of the wrong type),
\* TypingPracticeApp() does not raise.
C22_StartupNeverRaises == startup # "raised"

\* C23: when write_text fails inside save, the operation that saved
\* (add_session_record, set_setting, update_key_error_stats, set_random_text)
\* returns normally, write_text was called once, the file is as it was, and
\* the in-memory document holds the update.
C23_FailedSaveKeepsUpdate ==
  [][ (store_calls' # store_calls /\ ~store_calls'[Len(store_calls')].ok) =>
        LET call == store_calls'[Len(store_calls')]
        IN  /\ startup' = "running"
            /\ Len(store_calls') = Len(store_calls) + 1
            /\ file' = file
            /\ call.op = "add_session_record" =>
                 /\ history' # <<>>
                 /\ history'[Len(history')] = call.arg
            /\ call.op = "set_setting" => settings'[call.arg.key] = call.arg.value
            /\ call.op = "update_key_error_stats" =>
                 \A k \in DOMAIN call.arg :
                   /\ k \in DOMAIN key_error_stats'
                   /\ key_error_stats'[k] = Get(key_error_stats, k, 0) + call.arg[k]
            /\ call.op = "set_random_text" =>
                 /\ call.arg.lesson_index \in DOMAIN random_texts'
                 /\ random_texts'[call.arg.lesson_index] = call.arg.text ]_vars

\* three operations whose writes all failed: no file was written, and the
\* history, the key statistics and the stored random text hold the updates
C23_Witness ==
  /\ Len(store_calls) = 3
  /\ \A i \in 1..3 : ~store_calls[i].ok
  /\ store_calls[1].op = "add_session_record"
  /\ store_calls[2].op = "update_key_error_stats"
  /\ store_calls[3].op = "set_random_text"
  /\ file = NoFile
  /\ startup = "running"
  /\ Len(history) = 1
  /\ key_error_stats = Put(EmptyDict, "a", 2)
  /\ random_texts = Put(EmptyDict, Len(Lessons) - 1, <<"a">>)

\* the sum of the counts passed for key k in the update_key_error_stats calls
\* among calls
RECURSIVE passed_total(_, _)
passed_total(calls, k) ==
  IF calls = <<>>
    THEN 0
    ELSE LET call == Head(calls)
         IN  (IF call.op = "update_key_error_stats" THEN Get(call.arg, k, 0) ELSE 0)
               + passed_total(Tail(calls), k)

\* C25: after any sequence of update_key_error_stats calls (and other store
\* operations between them) the global count of every key is the sum of the
\* counts passed for it, and a key no call passed has no count: each call
\* adds m[k] for the keys of m, from 0 for a new key, and leaves the others.
C25_KeyErrorStatsAreSums ==
  \A k \in Chars :
    /\ Get(key_error_stats, k, 0) = passed_total(store_calls, k)
    /\ k \in DOMAIN key_error_stats <=>
         \E i \in 1..Len(store_calls) :
           /\ store_calls[i].op = "update_key_error_stats"
           /\ k \in DOMAIN store_calls[i].arg

\* two updates, one giving "a" and "b" a first count and one adding 2 to "a"
C25_Witness ==
  /\ key_error_stats = Put(Put(EmptyDict, "a", 3), "b", 1)
  /\ \E i, j \in 1..Len(store_calls) :
       /\ i < j
       /\ store_calls[i].op = "update_key_error_stats"
       /\ store_calls[i].arg = Put(Put(EmptyDict, "a", 1), "b", 1)
       /\ store_calls[j].op = "update_key_error_stats"
       /\ store_calls[j].arg = Put(EmptyDict, "a", 2)

\* C24: when the current lesson text is the random-words sentinel, the target
\* presented for typing is generated text, never the sentinel itself.
C24_SentinelNeverPresented ==
  (mode = "lesson"
     /\ Lessons[current_lesson_index + 1].texts[current_text_index + 1] = RANDOM_SENTINEL)
    => current_target_text # RANDOM_SENTINEL

\* C26: record_key_error(k) with a non-empty k raises key_errors[k] by one
\* (from 0 when absent) and leaves every other key as it was; with an empty k
\* it changes nothing; every tally is positive, and only reset lowers one.
C26_RecordKeyErrorCounts ==
  [][ /\ \A k \in Chars \cup {""} :
           CallRecordKeyError(k) =>
             IF k = ""
               THEN key_errors' = key_errors
               ELSE /\ DOMAIN key_errors' = DOMAIN key_errors \cup {k}
                    /\ key_errors'[k] = Get(key_errors, k, 0) + 1
                    /\ \A other \in DOMAIN key_errors \ {k} :
                         key_errors'[other] = key_errors[other]
      /\ \A k \in DOMAIN key_errors' : key_errors'[k] >= 1
      /\ \/ CallReset
         \/ \A k \in DOMAIN key_errors :
              /\ k \in DOMAIN key_errors'
              /\ key_errors'[k] >= key_errors[k] ]_vars

\* "a" was recorded twice and "b" once in an attempt under way
C26_Witness ==
  /\ key_errors = Put(Put(EmptyDict, "a", 2), "b", 1)
  /\ is_active
  /\ typed_text # <<>>

\* C27: once every pending 150 ms restore callback has fired, the typing
\* input has its normal style again, whatever the timing of the backspace
\* presses that raised the warnings.
C27_WarningIsTransient == (flashTimers = <<>>) => input_style = "normal"

\* C28: backspace_count increases only in a step that deletes from
\* typed_text; a Backspace keypress while the input is read-only after a
\* completion (strict mode off) deletes nothing and leaves it unchanged.
C28_CountedOnlyWithDeletion ==
  [][ /\ (backspace_count' > backspace_count) => Len(typed_text') < Len(typed_text)
      /\ (Backspace /\ readOnly /\ ~settings.strict_mode) =>
           backspace_count' = backspace_count ]_vars

\* C29: every step that changes current_target_text (a lesson selection, a
\* next_text that advances, apply_custom_text, an import, entering free
\* practice) leaves the session Idle with empty typed_text and the input
\* writable, so the target never changes under an attempt.
C29_TargetChangesOnlyWithReset ==
  [][ (current_target_text' # current_target_text) =>
        /\ typed_text' = <<>>
        /\ ~is_active'
        /\ start_time' = NoTime
        /\ backspace_count' = 0
        /\ key_errors' = EmptyDict
        /\ ~readOnly' ]_vars

\* an attempt completed in free practice, then a lesson selected while the
\* input was still locked: the new target comes with a fresh, writable session
C29_Witness ==
  /\ Len(history) = 1
  /\ history[1].lesson_name = "Free Practice"
  /\ mode = "lesson"
  /\ current_target_text = Lessons[1].texts[1]
  /\ unlockTimers # <<>>
  /\ typed_text = <<>>
  /\ ~is_active
  /\ ~readOnly

\* C30: in lesson mode next_text moves to the next text of the current lesson
\* when there is one, otherwise to the first text of the next lesson when
\* there is one, and otherwise leaves the lesson index, the text index, the
\* target and the session as they are; in free practice it changes nothing.
C30_NextTextAdvances ==
  [][ NextText =>
        LET texts == Lessons[current_lesson_index + 1].texts
        IN  IF mode = "lesson" /\ current_text_index < Len(texts) - 1
              THEN /\ mode' = "lesson"
                   /\ current_lesson_index' = current_lesson_index
                   /\ current_text_index' = current_text_index + 1
                   /\ current_target_text' = texts[current_text_index + 2]
              ELSE IF mode = "lesson" /\ current_lesson_index < Len(Lessons) - 1
                THEN /\ mode' = "lesson"
                     /\ current_lesson_index' = current_lesson_index + 1
                     /\ current_text_index' = 0
                     /\ current_target_text' = Lessons[current_lesson_index + 2].texts[1]
                ELSE UNCHANGED <<position, session, readOnly>> ]_vars

\* the second text of the first lesson was reached and completed, and the
\* next lesson is open at its first text
C30_Witness ==
  /\ Len(history) = 1
  /\ history[1].lesson_index = 0
  /\ history[1].text_index = 1
  /\ mode = "lesson"
  /\ current_lesson_index = 1
  /\ current_text_index = 0
  /\ current_target_text = Lessons[2].texts[1]
  /\ data = [current_lesson_index |-> 1, current_text_index |-> 0]
  /\ typed_text = <<>>

====
